---- MODULE Spec2Model ----
(***************************************************************************)
(* keithleygui: the connection-state poller, the Run handler, the one-shot *)
(* MeasureThread hand-off and the IV sweep-list builder.                   *)
(*                                                                         *)
(* Two threads of control exist: the Qt GUI thread (one handler at a time, *)
(* guiPc = "loop" between handlers) and the MeasureThread workers.  A      *)
(* handler that reads driver state more than once, or that performs        *)
(* instrument I/O, is split at those points, because the workers run       *)
(* concurrently with it.                                                   *)
(*                                                                         *)
(* The instrument driver (keithley2600) is an external collaborator: its   *)
(* measurement calls set keithley.busy on entry and clear it when they     *)
(* end; whether the instrument answers a connect(), a read or a write is   *)
(* decided anew at each of them.  Voltages are integers (multiples of one  *)
(* grid unit), integration times are microseconds, frequencies are Hz.     *)
(***************************************************************************)
EXTENDS Integers, Sequences, FiniteSets, TLC

VARIABLES
    connected,   \* keithley.connected
    busy,        \* keithley.busy
    gui,         \* enabled/checked flags of Run, Abort, Connect, Disconnect, LED
    guiPc,       \* position of the GUI thread
    pending,     \* inputs of the handler the GUI thread is inside
    threads,     \* every MeasureThread created so far, in creation order
    sweep_data,  \* KeithleyGuiApp.sweep_data
    last,        \* the GUI handler that returned most recently, and what it read
    smuApplied   \* the instrument's SMU settings are those apply_smu_settings wrote

vars == <<connected, busy, gui, guiPc, pending, threads, sweep_data, last,
          smuApplied>>

----------------------------------------------------------------------------
(* Bounds *)

\* MeasureThread objects created in one behaviour
MaxThreads == 2

\* IV spin boxes range over -MaxVolt..MaxVolt in SweepSpec
MaxVolt == 3

----------------------------------------------------------------------------
(* Inputs *)

\* tabWidgetSweeps holds one tab per module of measurements/
Tabs == {"Transfer", "Output", "IV"}

\* scienDSpinBoxInt, in microseconds
TIntInputs == {10, 20000, 600000}

\* keithley.localnode.linefreq, in Hz
LineFreqs == {50, 60}

\* comboBoxSweepType.currentIndex()
SweepTypeInputs == {1}

\* <<VStart, VStop, VStep>> of the IV tab, in Spec
IVInputs == {<<0, 2, 1>>, <<1, 1, 1>>}

Volts == (0 - MaxVolt)..MaxVolt

----------------------------------------------------------------------------
(* Interface states *)

Flags(run, abort, connect, disconnect, led) ==
    [run |-> run, abort |-> abort, connect |-> connect,
     disconnect |-> disconnect, led |-> led]

\* _gui_state_busy without pushButtonRun.setEnabled(False)
gui_state_busy_RunEnabled == Flags(TRUE, TRUE, FALSE, FALSE, TRUE)

gui_state_busy == Flags(FALSE, TRUE, FALSE, FALSE, TRUE)

gui_state_idle == Flags(TRUE, FALSE, FALSE, TRUE, TRUE)

gui_state_disconnected == Flags(FALSE, FALSE, TRUE, FALSE, FALSE)

----------------------------------------------------------------------------
(* Sweep-list arithmetic of the IV tab *)

Sign(x) == IF x > 0 THEN 1 ELSE IF x < 0 THEN 0 - 1 ELSE 0

Abs(x) == IF x < 0 THEN 0 - x ELSE x

\* ceil(a / b) for a >= 0, b > 0
CeilDiv(a, b) == (a + b - 1) \div b

\* len(np.arange(start, stop, step)) = max(ceil((stop - start) / step), 0)
ArangeLen(start, stop, step) ==
    IF step > 0
    THEN IF stop > start THEN CeilDiv(stop - start, step) ELSE 0
    ELSE IF start > stop THEN CeilDiv(start - stop, 0 - step) ELSE 0

\* np.arange raises when step is zero
ArangeRaises(start, stop, step) == step = 0

\* np.arange(start, stop, step): start + i * step for i in range(len)
Arange(start, stop, step) ==
    [i \in 1..ArangeLen(start, stop, step) |-> start + (i - 1) * step]

\* the step without abs(): the sign of the entered VStep decides the direction
StepNoAbs(p) == Sign(p.VStop - p.VStart) * p.VStep

\* step = np.sign(params['VStop'] - params['VStart']) * abs(params['VStep'])
Step(p) == Sign(p.VStop - p.VStart) * Abs(p.VStep)

\* the mfunction of the IV tab fails before the driver is called
SweeplistRaises(p) == ArangeRaises(p.VStart, p.VStop + Step(p), Step(p))

\* sweeplist = np.arange(params['VStart'], params['VStop'] + step, step)
Sweeplist(p) == Arange(p.VStart, p.VStop + Step(p), Step(p))

----------------------------------------------------------------------------
(* Parameters *)

NoParams == [Measurement |-> "none"]

\* measurements/transfer.py: the tab returns its settings
TransferParams ==
    [Measurement |-> "transfer", VgStart |-> 0, VgStop |-> 2, VgStep |-> 1,
     VdList |-> <<1>>]

\* measurements/iv.py: the tab returns its settings
IVParams(iv) ==
    [Measurement |-> "iv", VStart |-> iv[1], VStop |-> iv[2], VStep |-> iv[3],
     smu_sweep |-> "smua"]

\* the value of tabWidget._on_sweep_clicked(); the Output tab builds its
\* dictionary and returns nothing (None)
TabParams(tab, iv) ==
    CASE tab = "Transfer" -> TransferParams
      [] tab = "IV" -> IVParams(iv)
      [] tab = "Output" -> NoParams

\* params[...] = ... on None raises TypeError
IsNone(params) == params.Measurement = "none"

\* the acquisition settings added to the tab's dictionary
Acquisition(tInt, sweepType) ==
    [tInt |-> tInt, delay |-> 0, smu_gate |-> "smua", smu_drain |-> "smub",
     pulsed |-> (sweepType # 0)]

\* params['tInt'] > 25.0/freq or params['tInt'] < 0.001/freq; with tInt in
\* microseconds, 25 cycles are 25000000 and 0.001 cycles are 1000
TIntRejected(tInt, freq) ==
    \/ tInt * freq > 25000000
    \/ tInt * freq < 1000

----------------------------------------------------------------------------
(* MeasureThread *)

\* what one measurement does, in the order the code prescribes
FullLog == <<"busy", "start", "startedSig", "call", "return", "finishedSig", "done">>

\* MeasureThread(self.keithley, params, tabWidget.mfunction)
MeasureThread(tab, params) ==
    [mfunction |-> tab, params |-> params, pc |-> "created", log |-> <<>>,
     arg |-> <<>>, result |-> 0, emitted |-> 0]

\* the thread is between start() and the end of run()
Running(t) == t.pc \in {"started", "sweep", "reset"}

\* the thread is inside a call of the driver
InDriver(t) == t.pc \in {"sweep", "reset"}

Ids == 1..Len(threads)

Update(i, t) == [threads EXCEPT ![i] = t]

Logged(t, ev) == [t EXCEPT !.log = Append(@, ev)]

----------------------------------------------------------------------------
(* Records of the GUI thread *)

NoPending ==
    [h |-> "none", via |-> "none", tab |-> "none", tInt |-> 0]

NoLast ==
    [h |-> "none", via |-> "none", out |-> "none", msg |-> "none",
     conn |-> FALSE, busy |-> FALSE, probe |-> "none",
     tab |-> "none", tInt |-> 0, id |-> 0]

----------------------------------------------------------------------------
(* State after construction *)

\* KeithleyGuiApp.__init__ ends with a first _update_gui_connection(); no
\* MeasureThread exists yet, so the driver is not busy and nothing runs
\* beside it: a connected driver whose probe read failed was disconnected
Init ==
    /\ connected \in BOOLEAN
    /\ busy = FALSE
    /\ gui = IF connected THEN gui_state_idle ELSE gui_state_disconnected
    /\ guiPc = "loop"
    /\ pending = NoPending
    /\ threads = <<>>
    /\ sweep_data = 0
    /\ last = [NoLast EXCEPT !.h = "poll", !.via = "init", !.conn = connected,
                             !.probe = IF connected THEN "ok" ELSE "none"]
    /\ smuApplied = FALSE

----------------------------------------------------------------------------
(* _update_gui_connection *)

\* the test of line 519 without its "not"
PollTarget_NoNot(conn, b) == IF conn /\ b THEN "poll_probe" ELSE "poll_elif"

\* the test of line 519, which decides between the probe read and the elif chain
PollTarget(conn, b) == IF conn /\ ~b THEN "poll_probe" ELSE "poll_elif"

\* the elif chain with a first test of keithley.busy alone
PollElifBranch_BusyOnly(conn, b) ==
    IF b THEN "busy"
    ELSE IF ~conn THEN "disconnected"
    ELSE "none"

\* the elif chain of lines 527-531, on a second read of keithley.busy
PollElifBranch(conn, b) ==
    IF conn /\ b THEN "busy"
    ELSE IF ~conn THEN "disconnected"
    ELSE "none"

\* the poll is entered with keithley.connected = conn
PollEnter(via, conn) ==
    /\ guiPc' = PollTarget(conn, busy)
    /\ pending' = [NoPending EXCEPT !.h = "poll", !.via = via]

\* the poll, and with it the handler that called it, returns; _on_connect_clicked
\* shows its message when the driver is still not connected
PollReturn(conn, b, probe) ==
    /\ guiPc' = "loop"
    /\ pending' = NoPending
    /\ last' = [NoLast EXCEPT !.h = "poll", !.via = pending.via, !.conn = conn,
                              !.busy = b, !.probe = probe,
                              !.msg = IF pending.via = "connect" /\ ~connected'
                                      THEN "unreachable" ELSE "none"]

\* self.timer.timeout
TimerPoll ==
    /\ guiPc = "loop"
    /\ PollEnter("timer", connected)
    /\ UNCHANGED <<connected, busy, gui, threads, sweep_data, last, smuApplied>>

\* the probe read whose except branch does not call keithley.disconnect()
PollProbe_NoDisconnect ==
    /\ guiPc = "poll_probe"
    /\ \E ok \in BOOLEAN :
         /\ gui' = IF ok THEN gui_state_idle ELSE gui_state_disconnected
         /\ connected' = connected
         /\ PollReturn(TRUE, FALSE, IF ok THEN "ok" ELSE "fail")
    /\ UNCHANGED <<busy, threads, sweep_data, smuApplied>>

\* test = self.keithley.localnode.model, which the instrument answers (ok) or
\* which raises VisaIOError, InvalidSession or OSError, and what follows it
PollProbe ==
    /\ guiPc = "poll_probe"
    /\ \E ok \in BOOLEAN :
         /\ IF ok
            THEN gui' = gui_state_idle /\ connected' = connected
            ELSE gui' = gui_state_disconnected /\ connected' = FALSE
         /\ PollReturn(TRUE, FALSE, IF ok THEN "ok" ELSE "fail")
    /\ UNCHANGED <<busy, threads, sweep_data, smuApplied>>

PollElif ==
    /\ guiPc = "poll_elif"
    /\ gui' = CASE PollElifBranch(connected, busy) = "busy" -> gui_state_busy
                [] PollElifBranch(connected, busy) = "disconnected" ->
                       gui_state_disconnected
                [] OTHER -> gui
    /\ connected' = connected
    /\ PollReturn(connected, busy, "none")
    /\ UNCHANGED <<busy, threads, sweep_data, smuApplied>>

----------------------------------------------------------------------------
(* Connection menu *)

\* keithley.connect() reaches the instrument or does not
OnConnectClicked ==
    /\ guiPc = "loop"
    /\ gui.connect
    /\ \E ok \in BOOLEAN : connected' = (connected \/ ok)
    /\ PollEnter("connect", connected')
    /\ UNCHANGED <<busy, gui, threads, sweep_data, last, smuApplied>>

OnDisconnectClicked ==
    /\ guiPc = "loop"
    /\ gui.disconnect
    /\ connected' = FALSE
    /\ PollEnter("disconnect", connected')
    /\ UNCHANGED <<busy, gui, threads, sweep_data, last, smuApplied>>

----------------------------------------------------------------------------
(* _on_sweep_clicked *)

\* the settings in force after apply_smu_settings and the read of linefreq that
\* follows it: all writes were made (io), or a write or the read raised, after
\* every setting was written or not
apply_smu_settings(io) == IF io THEN {TRUE} ELSE {smuApplied, TRUE}

\* the handler without the check of tInt against the line frequency
SweepOutcome_NoTIntCheck(tab, iv, tInt, freq, io) ==
    IF ~io THEN "io_error"
    ELSE IF IsNone(TabParams(tab, iv)) THEN "type_error"
    ELSE "started"

\* how the handler ends once keithley.busy was read as False: apply_smu_settings
\* writes to the instrument, the tab hands over its parameters, the acquisition
\* settings are stored into them, the line frequency is read and tInt is checked
SweepOutcome(tab, iv, tInt, freq, io) ==
    IF ~io THEN "io_error"
    ELSE IF IsNone(TabParams(tab, iv)) THEN "type_error"
    ELSE IF TIntRejected(tInt, freq) THEN "bad_tint"
    ELSE "started"

\* _gui_state_busy() and measureThread.start()
Started(t) == Logged(Logged([t EXCEPT !.pc = "started"], "busy"), "start")

\* the MeasureThread that self.measureThread referred to is still in run()
PrevRunning == Len(threads) > 0 /\ Running(threads[Len(threads)])

SweepReturn(out, msg, tab, tInt, id) ==
    /\ guiPc' = "loop"
    /\ pending' = NoPending
    /\ last' = [NoLast EXCEPT !.h = "sweep", !.out = out, !.msg = msg,
                              !.tab = tab, !.tInt = tInt, !.id = id]

\* _on_sweep_clicked without its test of keithley.busy
OnSweepClicked_NoBusyTest ==
    /\ guiPc = "loop"
    /\ gui.run
    /\ Len(threads) < MaxThreads
    /\ guiPc' = "sweep_apply"
    /\ pending' = [NoPending EXCEPT !.h = "sweep"]
    /\ UNCHANGED <<connected, busy, gui, threads, sweep_data, last, smuApplied>>

\* pushButtonRun.clicked, up to the test of keithley.busy: a busy driver ends
\* the handler with a message, before any widget is read
OnSweepClicked ==
    /\ guiPc = "loop"
    /\ gui.run
    /\ Len(threads) < MaxThreads
    /\ IF busy
       THEN /\ guiPc' = "loop"
            /\ pending' = NoPending
            /\ last' = [NoLast EXCEPT !.h = "sweep", !.out = "rejected_busy",
                                      !.msg = "busy"]
       ELSE /\ guiPc' = "sweep_apply"
            /\ pending' = [NoPending EXCEPT !.h = "sweep"]
            /\ last' = last
    /\ UNCHANGED <<connected, busy, gui, threads, sweep_data, smuApplied>>

\* the rest of the handler, which reads the selected tab and the widgets.
\* Rebinding self.measureThread drops the last reference the GUI holds to the
\* previous MeasureThread; when that thread is still running, either its run()
\* frame keeps the object alive (block = FALSE) or __del__ runs at once and the
\* GUI thread blocks in wait() (block = TRUE)
OnSweepProceed ==
    /\ guiPc = "sweep_apply"
    /\ \E tab \in Tabs, tInt \in TIntInputs, sweepType \in SweepTypeInputs :
       \E iv \in (IF tab = "IV" THEN IVInputs ELSE {<<0, 0, 0>>}) :
       \E freq \in LineFreqs, io \in BOOLEAN, block \in BOOLEAN :
         LET out == SweepOutcome(tab, iv, tInt, freq, io)
             t == MeasureThread(tab, TabParams(tab, iv)
                                         @@ Acquisition(tInt, sweepType))
         IN  /\ block => (out = "started" /\ PrevRunning)
             /\ IF out # "started"
                THEN /\ IF out = "io_error"
                        THEN SweepReturn(out, "none", "none", 0, 0)
                        ELSE SweepReturn(out,
                                         IF out = "bad_tint" THEN "tint" ELSE "none",
                                         tab, tInt, 0)
                     /\ UNCHANGED <<gui, threads>>
                ELSE IF block
                THEN /\ threads' = Append(threads, t)
                     /\ guiPc' = "sweep_wait"
                     /\ pending' = [pending EXCEPT !.tab = tab, !.tInt = tInt]
                     /\ UNCHANGED <<gui, last>>
                ELSE /\ threads' = Append(threads, Started(t))
                     /\ gui' = gui_state_busy
                     /\ SweepReturn("started", "none", tab, tInt, Len(threads) + 1)
             /\ smuApplied' \in apply_smu_settings(io)
    /\ UNCHANGED <<connected, busy, sweep_data>>

\* wait() returned: the previous thread left run()
OnSweepResume ==
    /\ guiPc = "sweep_wait"
    /\ ~Running(threads[Len(threads) - 1])
    /\ threads' = Update(Len(threads), Started(threads[Len(threads)]))
    /\ gui' = gui_state_busy
    /\ SweepReturn("started", "none", pending.tab, pending.tInt, Len(threads))
    /\ UNCHANGED <<connected, busy, sweep_data, smuApplied>>

\* finishedSig is delivered to the GUI thread
OnMeasureDone(i) ==
    /\ guiPc = "loop"
    /\ threads[i].pc = "emitted"
    /\ gui' = gui_state_idle
    /\ sweep_data' = threads[i].emitted
    /\ threads' = Update(i, Logged([threads[i] EXCEPT !.pc = "done"], "done"))
    /\ last' = [NoLast EXCEPT !.h = "done", !.id = i]
    /\ UNCHANGED <<connected, busy, guiPc, pending, smuApplied>>

----------------------------------------------------------------------------
(* MeasureThread.run and the mfunction it calls *)

\* run() begins: self.startedSig.emit(), then self.mfunction(self.keithley,
\* self.params) up to the entry of the driver's measurement call, where the
\* driver sets keithley.busy; the IV tab builds its sweep list first
WorkerCall(i) ==
    LET t == Logged(Logged(threads[i], "startedSig"), "call") IN
    /\ t.pc = "started"
    /\ IF t.mfunction = "IV" /\ SweeplistRaises(t.params)
       THEN /\ threads' = Update(i, Logged([t EXCEPT !.pc = "failed"], "raise"))
            /\ busy' = busy
       ELSE /\ threads' = Update(i, [t EXCEPT !.pc = "sweep",
                                              !.arg = IF t.mfunction = "IV"
                                                      THEN Sweeplist(t.params)
                                                      ELSE <<>>])
            /\ busy' = TRUE
    /\ UNCHANGED <<connected, gui, guiPc, pending, sweep_data, last, smuApplied>>

\* the measurement function returns sweepData (the data of measurement i) and
\* run() goes on to self.finishedSig.emit(sweepData)
Returned(t, i) ==
    Logged(Logged([t EXCEPT !.pc = "emitted", !.result = i, !.emitted = i],
                  "return"), "finishedSig")

\* the driver's measurement call returns, keithley.busy cleared; the IV tab goes
\* on to keithley.reset(), the other tabs return
WorkerSweepReturn(i) ==
    LET t == threads[i] IN
    /\ t.pc = "sweep"
    /\ busy' = FALSE
    /\ threads' = Update(i, IF t.mfunction = "IV"
                            THEN [t EXCEPT !.pc = "reset"]
                            ELSE Returned(t, i))
    /\ UNCHANGED <<connected, gui, guiPc, pending, sweep_data, last, smuApplied>>

\* keithley.reset() returns, the SMU settings are the instrument's defaults
\* again, and the IV tab returns IVSweepData(vSweep, iSweep)
WorkerResetReturn(i) ==
    LET t == threads[i] IN
    /\ t.pc = "reset"
    /\ threads' = Update(i, Returned(t, i))
    /\ smuApplied' = FALSE
    /\ UNCHANGED <<connected, busy, gui, guiPc, pending, sweep_data, last>>

\* a driver call raises: run() has no handler, the thread ends; a reset() that
\* raises has reset the instrument or has not
WorkerRaise(i) ==
    LET t == threads[i] IN
    /\ InDriver(t)
    /\ busy' = IF t.pc = "sweep" THEN FALSE ELSE busy
    /\ threads' = Update(i, Logged([t EXCEPT !.pc = "failed"], "raise"))
    /\ smuApplied' \in (IF t.pc = "reset" THEN {smuApplied, FALSE} ELSE {smuApplied})
    /\ UNCHANGED <<connected, gui, guiPc, pending, sweep_data, last>>

----------------------------------------------------------------------------
(* Specifications *)

Next ==
    \/ TimerPoll
    \/ PollProbe
    \/ PollElif
    \/ OnConnectClicked
    \/ OnDisconnectClicked
    \/ OnSweepClicked
    \/ OnSweepProceed
    \/ OnSweepResume
    \/ \E i \in Ids : OnMeasureDone(i)
    \/ \E i \in Ids : WorkerCall(i)
    \/ \E i \in Ids : WorkerSweepReturn(i)
    \/ \E i \in Ids : WorkerResetReturn(i)
    \/ \E i \in Ids : WorkerRaise(i)

Spec == Init /\ [][Next]_vars

\* a step of the GUI thread that needs no user: the timer fires, and a handler
\* that was entered goes on
GuiStep ==
    \/ TimerPoll
    \/ PollProbe
    \/ PollElif
    \/ OnSweepProceed
    \/ OnSweepResume

\* a step of a worker thread; a driver call ends, by returning or by raising
WorkerStep ==
    \E i \in Ids :
       \/ WorkerCall(i)
       \/ WorkerSweepReturn(i)
       \/ WorkerResetReturn(i)
       \/ WorkerRaise(i)

\* the event loop of the GUI thread and the worker threads keep running
Fairness == WF_vars(GuiStep) /\ WF_vars(WorkerStep)

LiveSpec == Spec /\ Fairness

\* one measurement of the IV tab was started, for every setting of its spin boxes
SweepInit ==
    /\ connected = TRUE
    /\ busy = FALSE
    /\ gui = gui_state_busy
    /\ guiPc = "loop"
    /\ pending = NoPending
    /\ \E vStart \in Volts, vStop \in Volts, vStep \in Volts :
       \E tInt \in {x \in TIntInputs : \A f \in LineFreqs : ~TIntRejected(x, f)} :
       \E sweepType \in SweepTypeInputs :
          /\ threads = <<Started(MeasureThread("IV",
                             IVParams(<<vStart, vStop, vStep>>)
                                 @@ Acquisition(tInt, sweepType)))>>
          /\ last = [NoLast EXCEPT !.h = "sweep", !.out = "started", !.tab = "IV",
                                   !.tInt = tInt, !.id = 1]
    /\ sweep_data = 0
    /\ smuApplied = TRUE

SweepNext ==
    \/ \E i \in Ids : WorkerCall(i)
    \/ \E i \in Ids : WorkerSweepReturn(i)
    \/ \E i \in Ids : WorkerResetReturn(i)
    \/ \E i \in Ids : WorkerRaise(i)
    \/ \E i \in Ids : OnMeasureDone(i)

SweepSpec == SweepInit /\ [][SweepNext]_vars

----------------------------------------------------------------------------
(* Properties *)

IsPrefix(a, b) == Len(a) <= Len(b) /\ \A k \in 1..Len(a) : a[k] = b[k]

Count(log, ev) == Cardinality({k \in 1..Len(log) : log[k] = ev})

Range(f) == {f[k] : k \in DOMAIN f}

\* run() is over, by returning or by an exception
Ended(t) == t.pc \in {"emitted", "done", "failed"}

\* the IV mfunction of thread t has handed its sweep list to the driver
HandedOver(t) ==
    t.mfunction = "IV" /\ t.pc \in {"sweep", "reset", "emitted", "done"}

\* C1: at most one MeasureThread is between start() and the end of its run()
\* at any time: no thread is started while an earlier one is still running.
C1_SingleWorker == Cardinality({i \in Ids : Running(threads[i])}) <= 1

\* C2: the five flags (Run, Abort, Connect, Disconnect, LED) always form one
\* of the three states busy, idle, disconnected; Run and Abort are never both
\* enabled, and neither are Connect and Disconnect.
C2_ThreeStates ==
    /\ <<gui.run, gui.abort, gui.connect, gui.disconnect, gui.led>> \in
           { <<FALSE, TRUE, FALSE, FALSE, TRUE>>,
             <<TRUE, FALSE, FALSE, TRUE, TRUE>>,
             <<FALSE, FALSE, TRUE, FALSE, FALSE>> }
    /\ ~(gui.run /\ gui.abort)
    /\ ~(gui.connect /\ gui.disconnect)

\* a measurement was started and the GUI shows busy
C2_Witness ==
    /\ last.h = "sweep"
    /\ last.out = "started"
    /\ <<gui.run, gui.abort, gui.connect, gui.disconnect, gui.led>> =
           <<FALSE, TRUE, FALSE, FALSE, TRUE>>

C4_OneResult ==
    /\ \A i \in Ids :
          /\ IsPrefix(threads[i].log, FullLog)
          /\ Ended(threads[i]) =>
                /\ Count(threads[i].log, "finishedSig") = 1
                /\ threads[i].emitted = threads[i].result
                /\ threads[i].result = i
          /\ threads[i].pc = "done" => threads[i].log = FullLog
    /\ last.h = "done" =>
          /\ sweep_data = threads[last.id].result
          /\ gui = Flags(TRUE, FALSE, FALSE, TRUE, TRUE)

\* C5: once the GUI has entered busy because a measurement was started, it
\* eventually is not busy any more.
C5_LeavesBusy ==
    (last.h = "sweep" /\ last.out = "started"
        /\ gui = Flags(FALSE, TRUE, FALSE, FALSE, TRUE))
    ~> (gui # Flags(FALSE, TRUE, FALSE, FALSE, TRUE))

\* a started measurement raised, and a poll took the GUI out of busy
C5_Witness ==
    /\ \E i \in Ids : threads[i].pc = "failed"
    /\ \A i \in Ids : threads[i].pc \in {"failed", "done"}
    /\ last.h = "poll"
    /\ last.via = "timer"
    /\ gui # Flags(FALSE, TRUE, FALSE, FALSE, TRUE)

\* C6: for VStart # VStop and VStep # 0 the list handed to the driver starts
\* at VStart, each set-point differs from the one before by |VStep| towards
\* VStop, and the list is the one the negated VStep gives.
C6_OrderedSweep ==
    \A i \in Ids :
       LET t == threads[i]
           p == t.params
           d == IF p.VStop > p.VStart THEN Abs(p.VStep) ELSE 0 - Abs(p.VStep)
       IN  (HandedOver(t) /\ p.VStart # p.VStop /\ p.VStep # 0) =>
              /\ Len(t.arg) >= 1
              /\ t.arg[1] = p.VStart
              /\ \A k \in 1..(Len(t.arg) - 1) : t.arg[k + 1] - t.arg[k] = d
              /\ t.arg = Sweeplist([p EXCEPT !.VStep = 0 - p.VStep])

\* a downward sweep of at least three set-points, entered with a negative step
C6_Witness ==
    \E i \in Ids :
       /\ HandedOver(threads[i])
       /\ threads[i].params.VStop < threads[i].params.VStart
       /\ threads[i].params.VStep < 0
       /\ Len(threads[i].arg) >= 3

\* C7: a Run click on any tab, with working instrument I/O, the driver not
\* busy and a valid integration time, starts a thread whose measurement
\* function is the tab's and whose parameters are the tab's settings
\* extended with tInt, delay, smu_gate, smu_drain and pulsed.
C7_RunEveryTab ==
    (/\ last.h = "sweep"
     /\ last.out \notin {"rejected_busy", "io_error"}
     /\ \A f \in LineFreqs : ~TIntRejected(last.tInt, f)) =>
        /\ last.out = "started"
        /\ threads[last.id].mfunction = last.tab
        /\ \E iv \in IVInputs, sweepType \in SweepTypeInputs :
              threads[last.id].params =
                  TabParams(last.tab, iv) @@ Acquisition(last.tInt, sweepType)

\* C8: the GUI thread is never in instrument I/O (the probe read of the poll,
\* apply_smu_settings and the line-frequency read of the Run handler) while
\* a worker is inside a driver call.
C8_NoConcurrentIO ==
    ~(/\ guiPc \in {"poll_probe", "sweep_apply"}
      /\ \E i \in Ids : InDriver(threads[i]))

\* C9: for VStart # VStop and VStep # 0 every set-point handed to the driver
\* lies between VStart and VStop.
C9_InRange ==
    \A i \in Ids :
       LET t == threads[i]
           p == t.params
       IN  (HandedOver(t) /\ p.VStart # p.VStop /\ p.VStep # 0) =>
              \A k \in 1..Len(t.arg) :
                 \/ p.VStart <= t.arg[k] /\ t.arg[k] <= p.VStop
                 \/ p.VStop <= t.arg[k] /\ t.arg[k] <= p.VStart

\* C10: for every VStart, VStop and VStep the IV measurement function, once
\* called, hands the driver a non-empty list that contains VStart.
C10_Total ==
    \A i \in Ids :
       LET t == threads[i] IN
       (t.mfunction = "IV" /\ Count(t.log, "call") > 0) =>
           (HandedOver(t) \/ t.arg # <<>>) /\ t.params.VStart \in Range(t.arg)

\* C11: the step of the Run handler that creates a MeasureThread has completed
\* apply_smu_settings, and whenever a worker's measurement function enters the
\* driver's sweep call the settings apply_smu_settings wrote are in force, also
\* after a keithley.reset() at the end of an earlier measurement.
C11_SettingsInForce ==
    [][/\ Len(threads') > Len(threads) => smuApplied'
       /\ \A i \in Ids :
             (threads[i].pc = "started" /\ threads'[i].pc = "sweep") => smuApplied
      ]_vars

\* C12: a Run click that finds the driver busy ends the handler at once: the
\* "busy" message is shown, no SMU setting is written, nothing is read from the
\* tab, no MeasureThread is created or started, and the GUI flags stay as
\* they were.
C12_BusyRejected ==
    [][(/\ guiPc = "loop"
        /\ busy
        /\ \/ guiPc' = "sweep_apply"
           \/ last'.h = "sweep" /\ last' # last)
       => (/\ guiPc' = "loop"
           /\ last'.out = "rejected_busy"
           /\ last'.msg = "busy"
           /\ last'.tab = "none"
           /\ pending' = NoPending
           /\ smuApplied' = smuApplied
           /\ threads' = threads
           /\ gui' = gui)
      ]_vars

\* Run was enabled while the driver was busy, and the click was rejected
C12_Witness ==
    /\ last.h = "sweep"
    /\ last.out = "rejected_busy"
    /\ last.msg = "busy"
    /\ busy
    /\ gui.run
    /\ \E i \in Ids : threads[i].pc = "sweep"

\* the Run handler returns in this step, no call of it raised, and the
\* integration time it read is outside [0.001/f, 25/f]
TIntRejection ==
    /\ guiPc = "sweep_apply"
    /\ guiPc' = "loop"
    /\ last'.out \notin {"io_error", "type_error"}
    /\ \A f \in LineFreqs : TIntRejected(last'.tInt, f)

\* C13 as stated: a Run click rejected for its integration time creates no
\* thread, leaves the GUI flags alone and leaves the instrument's SMU settings
\* exactly as they were before the click.
C13_NoSideEffect ==
    [][TIntRejection =>
          (/\ last'.out = "bad_tint"
           /\ threads' = threads
           /\ gui' = gui
           /\ smuApplied' = smuApplied)
      ]_vars

\* C13 as amended: a Run click rejected for its integration time shows the
\* message, creates no thread and leaves the GUI flags alone, but the
\* settings of the GUI have been written to the SMUs by apply_smu_settings,
\* which ran before the check.
C13_SettingsWritten ==
    [][TIntRejection =>
          (/\ last'.out = "bad_tint"
           /\ last'.msg = "tint"
           /\ threads' = threads
           /\ gui' = gui
           /\ smuApplied')
      ]_vars

\* no thread was ever created, the last click was rejected for its integration
\* time, and the settings are on the instrument
C13_Witness ==
    /\ last.h = "sweep"
    /\ last.out = "bad_tint"
    /\ last.msg = "tint"
    /\ threads = <<>>
    /\ smuApplied
    /\ gui = gui_state_idle

\* C14: a poll whose probe read of localnode.model fails returns normally, has
\* called the driver's disconnect (keithley.connected is False) and leaves
\* the GUI in disconnected; the probe is read only by a poll that found the
\* driver connected and not busy, and a poll entered with the driver busy
\* returns without a probe read.
C14_LostConnection ==
    [][/\ (guiPc = "poll_probe" /\ guiPc' = "loop" /\ last'.probe = "fail") =>
              (/\ last'.h = "poll"
               /\ last'.conn
               /\ ~last'.busy
               /\ ~connected'
               /\ gui' = Flags(FALSE, FALSE, TRUE, FALSE, FALSE))
       /\ (guiPc = "loop" /\ guiPc' = "poll_probe") => (connected' /\ ~busy)
       /\ (guiPc = "loop" /\ pending'.h = "poll" /\ busy) => guiPc' = "poll_elif"
       /\ (guiPc = "poll_elif" /\ guiPc' = "loop") => last'.probe = "none"
      ]_vars

\* a timer poll found the driver connected and idle, its probe read failed, and
\* the driver and the GUI are disconnected
C14_Witness ==
    /\ guiPc = "loop"
    /\ last.h = "poll"
    /\ last.via = "timer"
    /\ last.probe = "fail"
    /\ ~connected
    /\ gui = Flags(FALSE, FALSE, TRUE, FALSE, FALSE)

\* the handler that called the poll returns in this step
MenuReturns(via) ==
    /\ guiPc \in {"poll_probe", "poll_elif"}
    /\ pending.via = via
    /\ guiPc' = "loop"

\* C15: when _on_connect_clicked returns the GUI is disconnected and the
\* "cannot be reached" message was shown if the driver is not connected, and
\* otherwise it is idle, or busy if the driver reported busy; when
\* _on_disconnect_clicked returns the GUI is disconnected; Connect is triggered
\* only in the disconnected state and Disconnect only in the idle state, never
\* in busy.
C15_ConnectTransitions ==
    [][/\ MenuReturns("connect") =>
              IF ~connected'
              THEN gui' = Flags(FALSE, FALSE, TRUE, FALSE, FALSE)
                   /\ last'.msg = "unreachable"
              ELSE /\ last'.msg = "none"
                   /\ gui' = IF last'.busy
                             THEN Flags(FALSE, TRUE, FALSE, FALSE, TRUE)
                             ELSE Flags(TRUE, FALSE, FALSE, TRUE, TRUE)
       /\ MenuReturns("disconnect") =>
              (~connected' /\ gui' = Flags(FALSE, FALSE, TRUE, FALSE, FALSE))
       /\ (guiPc = "loop" /\ pending'.via = "connect") =>
              gui = Flags(FALSE, FALSE, TRUE, FALSE, FALSE)
       /\ (guiPc = "loop" /\ pending'.via = "disconnect") =>
              gui = Flags(TRUE, FALSE, FALSE, TRUE, TRUE)
      ]_vars

====
